---- MODULE Spec2Model ----
(***************************************************************************)
(* Model of the asserter module (src/src/asserter/index.ts): the rule      *)
(* execution engine (asserterHandler), the single-rule report              *)
(* (generateReportForRule), dependency resolution (directDependencies)     *)
(* and the rule registry (findRules, findRule, declaredRuleToRule).        *)
(*                                                                         *)
(* Rule results are JavaScript objects that the engine mutates in place,   *)
(* so they live in a heap: a sequence of cells addressed by position.  A   *)
(* handler returns references into that heap: to objects it builds on the  *)
(* call (successful(), failed()) or to objects it keeps between calls.     *)
(***************************************************************************)
EXTENDS Integers, Sequences, FiniteSets, TLC

\* ---------------------------------------------------------------- bounds
\* MaxRules: rules of the asserter.  MaxResults: results the handlers of all
\* rules return together.  MaxDragees: dragees given to the engine.
MaxRules == 2
MaxResults == 3
MaxDragees == 1

\* ------------------------------------------------------------ input sets
\* JavaScript's undefined: an absent field, a find with no match.
Undefined == [undefined |-> TRUE]
Namespaces == {"layering", "domain"}
\* The labels of an asserter's rules, by position: they are distinct.
Labels == <<"no-cycle", "no-infra", "no-io", "no-ui">>
\* The dragee list is a prefix of these.
DrageeNames == <<"X", "Y", "Z">>
Messages == {"cycle detected"}

VARIABLES
    asserter,    \* the Asserter: namespace and rules
    dragees,     \* the dragee list S given to the engine
    heap,        \* RuleResult objects, by address
    report,      \* the Report returned by the last call (errors: addresses)
    op,          \* the last call: "none", "asserterHandler", "generateReportForRule"
    found,       \* generateReportForRule: index of the rule asserter.rule found, 0 for none
    results,     \* the last call's rulesResults (addresses), in order
    producers,   \* for each entry of results, the index of the rule whose handler returned it
    calls,       \* the handler invocations of the last call: rule index and argument
    stamps,      \* the ruleId assignments to results during the last call
    again,       \* the last call is an asserterHandler call that follows another
    prevReport,  \* when again: the Report of the call before
    prevValue,   \* when again: the value of that Report when it was returned
    root,        \* directDependencies: the root dragee
    allDragees,  \* directDependencies: the candidate dragees
    resolved,    \* directDependencies: what it returned, Undefined before the call
    regNamespace, \* findRules, findRule: the namespace
    ruleFiles,   \* the rule files of the directory, in the order the scan yields them
    regOp,       \* the last registry call: "none", "findRules", "findRule"
    regName,     \* findRule: the ruleName asked for
    regResult    \* what the registry call returned

engineVars == <<asserter, dragees, heap, report, op, found, results, producers, calls,
                stamps, again, prevReport, prevValue>>
depsVars == <<root, allDragees, resolved>>
registryVars == <<regNamespace, ruleFiles, regOp, regName, regResult>>
vars == <<engineVars, depsVars, registryVars>>

\* ------------------------------------------------------------- sequences
RECURSIVE SeqsUpTo(_, _)
SeqsUpTo(S, n) ==
    IF n = 0 THEN {<<>>}
    ELSE LET shorter == SeqsUpTo(S, n - 1)
         IN  shorter \cup {Append(s, x) : s \in {t \in shorter : Len(t) = n - 1}, x \in S}

Range(s) == {s[i] : i \in 1..Len(s)}

\* A Dragee: its name and its depends_on, Undefined when absent, else the
\* mapping, given by its keys in the order Object.keys yields them.
DependsOn(keys) == [keys |-> keys]

Dragee(name, dependsOn) == [name |-> name, depends_on |-> dependsOn]

\* ------------------------------------------------- results (lines 20-43)
successful == [pass |-> TRUE, ruleId |-> Undefined, error |-> Undefined]

failed(dragee, message) ==
    [pass |-> FALSE, ruleId |-> Undefined,
     error |-> [ruleId |-> Undefined, drageeName |-> dragee.name, message |-> message]]

\* The objects handlers keep between calls and return again: address 1 a
\* successful result, address 2 a failed one.  The heap holds them first, then
\* the objects built during the last call; those of earlier calls are
\* garbage, which no handler and no later call reaches.
SharedHeap == <<successful, failed(Dragee("K", Undefined), "forbidden dependency")>>
SharedRefs == 1..Len(SharedHeap)
KeptOf(hp) == SubSeq(hp, 1, Len(SharedHeap))

\* ---------------------------------------------------------------- rules
\* generateId lives in ../common: a pure, collision-free function of
\* (namespace, label).
generateId(namespace, label) == [namespace |-> namespace, label |-> label]

\* What a handler returns for the dragee list, entry by entry: a new
\* successful(), a new failed(dragees[dragee], message), or a kept object.
HandlerItems(n) ==
    {[kind |-> "successful", dragee |-> 0, message |-> "", ref |-> 0]}
    \cup {[kind |-> "failed", dragee |-> d, message |-> m, ref |-> 0] :
            d \in 1..n, m \in Messages}
    \cup {[kind |-> "shared", dragee |-> 0, message |-> "", ref |-> a] : a \in SharedRefs}

\* The handlers of r rules: what they return together is cut into r
\* consecutive parts, one per rule.
PartOf(flat, cut, i) ==
    LET at == SelectSeq([k \in 1..Len(flat) |-> k], LAMBDA k : cut[k] = i)
    IN  [j \in 1..Len(at) |-> flat[at[j]]]

Handlers(n, r) ==
    UNION {{[i \in 1..r |-> PartOf(flat, cut, i)] :
                cut \in {c \in [1..Len(flat) -> 1..r] :
                            \A j, k \in 1..Len(flat) : j < k => c[j] <= c[k]}} :
            flat \in SeqsUpTo(HandlerItems(n), MaxResults)}

\* rule.handler(dragees): allocates the new results, returns the references.
RECURSIVE CallHandler(_, _, _, _)
CallHandler(items, ds, hp, refs) ==
    IF items = <<>> THEN [heap |-> hp, refs |-> refs]
    ELSE LET it == Head(items)
         IN  IF it.kind = "shared"
             THEN CallHandler(Tail(items), ds, hp, Append(refs, it.ref))
             ELSE LET cell == IF it.kind = "successful" THEN successful
                              ELSE failed(ds[it.dragee], it.message)
                  IN  CallHandler(Tail(items), ds, Append(hp, cell),
                                  Append(refs, Len(hp) + 1))

Severities == {"error", "warn", "info"}

\* A Rule of the engine's asserter (line 214).
MakeRule(namespace, label, items) ==
    [id |-> generateId(namespace, label), label |-> label, severity |-> "error",
     handler |-> items]

\* ----------------------------------- asserterHandler (lines 118-147)
\* result => { result.ruleId = rule.id; return result; }
StampResult(hp, ref, id) == [hp EXCEPT ![ref].ruleId = id]

\* rule.handler(dragees).map(stamp): st carries the heap, the results so
\* far, and the record of invocations and assignments.
RECURSIVE MapStamp(_, _, _, _)
MapStamp(st, refs, id, i) ==
    IF refs = <<>> THEN st
    ELSE MapStamp([st EXCEPT !.heap = StampResult(st.heap, Head(refs), id),
                             !.results = Append(st.results, Head(refs)),
                             !.producers = Append(st.producers, i),
                             !.stamps = Append(st.stamps, [ref |-> Head(refs), ruleId |-> id])],
                  Tail(refs), id, i)

RunRule(st, rule, ds, i) ==
    LET ret == CallHandler(rule.handler, ds, st.heap, <<>>)
    IN  MapStamp([st EXCEPT !.heap = ret.heap,
                            !.calls = Append(st.calls, [rule |-> i, dragees |-> ds])],
                 ret.refs, rule.id, i)

\* asserter.rules.flatMap(rule => rule.handler(dragees).map(...))
RECURSIVE FlatMapRules(_, _, _, _)
FlatMapRules(st, rules, ds, i) ==
    IF i > Len(rules) THEN st
    ELSE FlatMapRules(RunRule(st, rules[i], ds, i), rules, ds, i + 1)

StartOf(hp) == [heap |-> hp, results |-> <<>>, producers |-> <<>>, calls |-> <<>>,
                stamps |-> <<>>]

\* Mutant: a failing result counts only while its error carries no ruleId yet.
IsFailedUnreported(hp, ref) == ~hp[ref].pass /\ hp[ref].error.ruleId = Undefined

IsFailed(hp, ref) == ~hp[ref].pass

\* Mutant: the passed results are not filtered.
IsPassedUnfiltered(hp, ref) == TRUE

IsPassed(hp, ref) == hp[ref].pass

\* result => { result.error.ruleId = result.ruleId; return result.error; }
\* A failed result owns its error object, which is addressed by the result.
PropagateRuleId(hp, ref) == [hp EXCEPT ![ref].error.ruleId = hp[ref].ruleId]

\* Mutant: the errors are collected in reverse.
RECURSIVE MapErrorsReversed(_, _, _)
MapErrorsReversed(hp, refs, errs) ==
    IF refs = <<>> THEN [heap |-> hp, errors |-> errs]
    ELSE MapErrorsReversed(PropagateRuleId(hp, Head(refs)), Tail(refs),
                           <<Head(refs)>> \o errs)

RECURSIVE MapErrors(_, _, _)
MapErrors(hp, refs, errs) ==
    IF refs = <<>> THEN [heap |-> hp, errors |-> errs]
    ELSE MapErrors(PropagateRuleId(hp, Head(refs)), Tail(refs), Append(errs, Head(refs)))

\* rulesResults.filter(result => !result.pass).map(...)
RulesResultsErrors(hp, refs) ==
    MapErrors(hp, SelectSeq(refs, LAMBDA r : IsFailed(hp, r)), <<>>)

\* rulesResults.filter(result => result.pass)
RulesResultsPassed(hp, refs) == SelectSeq(refs, LAMBDA r : IsPassed(hp, r))

\* Mutant: pass is computed from the passed results.
AsserterReportPassFromPassed(a, errors, passed) ==
    [pass |-> Len(passed) > 0,
     namespace |-> a.namespace,
     errors |-> errors,
     stats |-> [errorsCount |-> Len(errors), passCount |-> Len(passed),
                rulesCount |-> Len(a.rules)]]

AsserterReport(a, errors, passed) ==
    [pass |-> Len(errors) = 0,
     namespace |-> a.namespace,
     errors |-> errors,
     stats |-> [errorsCount |-> Len(errors), passCount |-> Len(passed),
                rulesCount |-> Len(a.rules)]]

\* ----------------------------- generateReportForRule (lines 155-197)
\* Mutant: the report of a rule not found counts the asserter's rules.
NotFoundReportCountsRules(a) ==
    [pass |-> TRUE,
     namespace |-> a.namespace,
     errors |-> <<>>,
     stats |-> [errorsCount |-> 0, passCount |-> 0, rulesCount |-> Len(a.rules)]]

NotFoundReport(a) ==
    [pass |-> TRUE,
     namespace |-> a.namespace,
     errors |-> <<>>,
     stats |-> [errorsCount |-> 0, passCount |-> 0, rulesCount |-> 0]]

\* Mutant: the single-rule report counts one rule.
RuleReportCountsOne(a, errors, passed) ==
    [pass |-> Len(errors) = 0,
     namespace |-> a.namespace,
     errors |-> errors,
     stats |-> [errorsCount |-> Len(errors), passCount |-> Len(passed),
                rulesCount |-> 1]]

RuleReport(a, errors, passed) ==
    [pass |-> Len(errors) = 0,
     namespace |-> a.namespace,
     errors |-> errors,
     stats |-> [errorsCount |-> Len(errors), passCount |-> Len(passed),
                rulesCount |-> Len(a.rules)]]

\* The value of a report: its errors read through the heap.
ErrorValue(hp, ref) == hp[ref].error

ReportValue(hp, r) ==
    [pass |-> r.pass, namespace |-> r.namespace,
     errors |-> [k \in 1..Len(r.errors) |-> ErrorValue(hp, r.errors[k])],
     stats |-> r.stats]

NoReport == [pass |-> TRUE, namespace |-> "", errors |-> <<>>,
             stats |-> [errorsCount |-> 0, passCount |-> 0, rulesCount |-> 0]]

\* ------------------------------------------------------------- the engine
DepsIdle ==
    /\ root = Dragee("A", Undefined)
    /\ allDragees = <<>>
    /\ resolved = Undefined

RegistryIdle ==
    /\ regNamespace = "layering"
    /\ ruleFiles = <<>>
    /\ regOp = "none"
    /\ regName = <<>>
    /\ regResult = Undefined

Init ==
    /\ DepsIdle
    /\ RegistryIdle
    /\ \E n \in 0..MaxDragees : dragees = [i \in 1..n |-> Dragee(DrageeNames[i], Undefined)]
    /\ \E ns \in Namespaces :
         \E r \in 0..MaxRules :
           \E hs \in Handlers(Len(dragees), r) :
              asserter = [namespace |-> ns,
                          rules |-> [i \in 1..r |-> MakeRule(ns, Labels[i], hs[i])]]
    /\ heap = SharedHeap
    /\ report = NoReport
    /\ op = "none"
    /\ found = 0
    /\ results = <<>>
    /\ producers = <<>>
    /\ calls = <<>>
    /\ stamps = <<>>
    /\ again = FALSE
    /\ prevReport = NoReport
    /\ prevValue = NoReport

AsserterHandler ==
    /\ \E st \in {FlatMapRules(StartOf(KeptOf(heap)), asserter.rules, dragees, 1)} :
       \E errs \in {RulesResultsErrors(st.heap, st.results)} :
       \E passed \in {RulesResultsPassed(errs.heap, st.results)} :
           /\ heap' = errs.heap
           /\ report' = AsserterReport(asserter, errs.errors, passed)
           /\ results' = st.results
           /\ producers' = st.producers
           /\ calls' = st.calls
           /\ stamps' = st.stamps
    /\ op' = "asserterHandler"
    /\ found' = 0
    /\ again' = (op = "asserterHandler")
    /\ prevReport' = (IF op = "asserterHandler" THEN report ELSE NoReport)
    /\ prevValue' = (IF op = "asserterHandler" THEN ReportValue(heap, report) ELSE NoReport)
    /\ UNCHANGED <<asserter, dragees, depsVars, registryVars>>

\* asserter.rule(file) is the asserter's own lookup: it finds one of the
\* asserter's rules, or none (rule = 0).
GenerateReportForRule(rule) ==
    /\ IF rule = 0
       THEN /\ report' = NotFoundReport(asserter)
            /\ heap' = KeptOf(heap)
            /\ results' = <<>>
            /\ producers' = <<>>
            /\ calls' = <<>>
            /\ stamps' = <<>>
       ELSE \E st \in {RunRule(StartOf(KeptOf(heap)), asserter.rules[rule], dragees, rule)} :
            \E errs \in {RulesResultsErrors(st.heap, st.results)} :
            \E passed \in {RulesResultsPassed(errs.heap, st.results)} :
                /\ heap' = errs.heap
                /\ report' = RuleReport(asserter, errs.errors, passed)
                /\ results' = st.results
                /\ producers' = st.producers
                /\ calls' = st.calls
                /\ stamps' = st.stamps
    /\ op' = "generateReportForRule"
    /\ found' = rule
    /\ again' = FALSE
    /\ prevReport' = NoReport
    /\ prevValue' = NoReport
    /\ UNCHANGED <<asserter, dragees, depsVars, registryVars>>

Next ==
    \/ AsserterHandler
    \/ \E rule \in 0..Len(asserter.rules) : GenerateReportForRule(rule)

Spec == Init /\ [][Next]_vars

EngineIdle ==
    /\ asserter = [namespace |-> "layering", rules |-> <<>>]
    /\ dragees = <<>>
    /\ heap = SharedHeap
    /\ report = NoReport
    /\ op = "none"
    /\ found = 0
    /\ results = <<>>
    /\ producers = <<>>
    /\ calls = <<>>
    /\ stamps = <<>>
    /\ again = FALSE
    /\ prevReport = NoReport
    /\ prevValue = NoReport

\* ------------------------------------- directDependencies (lines 51-61)
MaxKeys == 3
MaxCandidates == 2
DepNames == {"A", "B", "C", "D"}

Distinct(s) == \A i, j \in 1..Len(s) : s[i] = s[j] => i = j

\* allDragees.find(dragee => dragee.name === dependency): the first match,
\* Undefined when there is none.
RECURSIVE Find(_, _)
Find(all, name) ==
    IF all = <<>> THEN Undefined
    ELSE IF Head(all).name = name THEN Head(all)
    ELSE Find(Tail(all), name)

\* Object.keys(root.depends_on)
ObjectKeys(dependsOn) == dependsOn.keys

\* Mutant: the candidates are filtered by the keys, in candidate order.
directDependenciesInCandidateOrder(r, all) ==
    IF r.depends_on = Undefined
    THEN [root |-> r, dependencies |-> <<>>]
    ELSE [root |-> r,
          dependencies |-> SelectSeq(all, LAMBDA d :
                              \E k \in 1..Len(ObjectKeys(r.depends_on)) :
                                  ObjectKeys(r.depends_on)[k] = d.name)]

directDependencies(r, all) ==
    IF r.depends_on = Undefined
    THEN [root |-> r, dependencies |-> <<>>]
    ELSE LET keys == ObjectKeys(r.depends_on)
             mapped == [k \in 1..Len(keys) |-> Find(all, keys[k])]
         IN  [root |-> r,
              dependencies |-> SelectSeq(mapped, LAMBDA d : d # Undefined)]

\* Dragee names are unique within a run.
InitDeps ==
    /\ EngineIdle
    /\ RegistryIdle
    /\ \E n \in DepNames :
         \E d \in {Undefined} \cup {DependsOn(s) : s \in {t \in SeqsUpTo(DepNames, MaxKeys) : Distinct(t)}} :
            root = Dragee(n, d)
    /\ allDragees \in {s \in SeqsUpTo({Dragee(n, d) : n \in DepNames, d \in {Undefined, DependsOn(<<>>)}},
                                     MaxCandidates) :
                          \A i, j \in 1..Len(s) : s[i].name = s[j].name => i = j}
    /\ resolved = Undefined

DirectDependencies ==
    /\ resolved = Undefined
    /\ resolved' = directDependencies(root, allDragees)
    /\ UNCHANGED <<root, allDragees, engineVars, registryVars>>

NextDeps == DirectDependencies

SpecDeps == InitDeps /\ [][NextDeps]_vars

\* ------------------- findRules, findRule, declaredRuleToRule (lines 68-104, 216-218)
MaxFiles == 2
RegistryLabels == {"no-cycle", "no-infra"}
Stems == {<<"a">>, <<"a", "b">>, <<"b">>}
RuleNames == {<<>>, <<"a">>, <<"b">>, <<"a", "b">>, <<"b", "a">>, <<"r">>}
ScannedDir == <<"/", "r">>

\* What a rule file exports as default: label, severity and handler, and
\* for some files a field id of its own.
DeclaredRules ==
    {[label |-> l, severity |-> v, handler |-> "handler"] :
        l \in RegistryLabels, v \in Severities}
    \cup {[id |-> [declared |-> l], label |-> l, severity |-> v, handler |-> "handler"] :
            l \in RegistryLabels, v \in Severities}

\* The absolute path of dir/<stem>.rule.ts, as the scan yields it.
PathOf(stem) == ScannedDir \o <<"/">> \o stem \o <<".rule.ts">>

\* { id: generateId(namespace, rule.label), ...rule }: the fields of rule are
\* copied after id is set.
declaredRuleToRule(namespace, rule) ==
    [f \in {"id"} \cup DOMAIN rule |->
        IF f \in DOMAIN rule THEN rule[f] ELSE generateId(namespace, rule.label)]

\* Array.from(files).map(require).map(rule => declaredRuleToRule(namespace, rule))
findRules(namespace, files) ==
    [k \in 1..Len(files) |-> declaredRuleToRule(namespace, files[k].default)]

\* String.prototype.includes
Includes(hay, needle) ==
    \E i \in 0..(Len(hay) - Len(needle)) : SubSeq(hay, i + 1, i + Len(needle)) = needle

\* Array.from(files).find(file => file.includes(`/${ruleName}`))
RECURSIVE FindFile(_, _)
FindFile(files, ruleName) ==
    IF files = <<>> THEN Undefined
    ELSE IF Includes(Head(files).path, <<"/">> \o ruleName) THEN Head(files)
    ELSE FindFile(Tail(files), ruleName)

findRule(namespace, files, ruleName) ==
    LET file == FindFile(files, ruleName)
    IN  IF file = Undefined THEN Undefined
        ELSE declaredRuleToRule(namespace, file.default)

InitRegistry ==
    /\ EngineIdle
    /\ DepsIdle
    /\ regNamespace \in Namespaces
    /\ ruleFiles \in {s \in SeqsUpTo({[path |-> PathOf(st), default |-> d] :
                                        st \in Stems, d \in DeclaredRules}, MaxFiles) :
                        \A i, j \in 1..Len(s) : s[i].path = s[j].path => i = j}
    /\ regOp = "none"
    /\ regName = <<>>
    /\ regResult = Undefined

FindRules ==
    /\ regOp = "none"
    /\ regOp' = "findRules"
    /\ regResult' = findRules(regNamespace, ruleFiles)
    /\ UNCHANGED <<regNamespace, ruleFiles, regName, engineVars, depsVars>>

FindRule(ruleName) ==
    /\ regOp = "none"
    /\ regOp' = "findRule"
    /\ regName' = ruleName
    /\ regResult' = findRule(regNamespace, ruleFiles, ruleName)
    /\ UNCHANGED <<regNamespace, ruleFiles, engineVars, depsVars>>

NextRegistry ==
    \/ FindRules
    \/ \E ruleName \in RuleNames : FindRule(ruleName)

SpecRegistry == InitRegistry /\ [][NextRegistry]_vars

\* --------------------------------------- what the handlers return, per rule
\* Read off the handlers alone, without the engine.
ItemPasses(it) ==
    \/ it.kind = "successful"
    \/ it.kind = "shared" /\ SharedHeap[it.ref].pass

ItemPayload(it, ds) ==
    IF it.kind = "shared"
    THEN [message |-> SharedHeap[it.ref].error.message,
          drageeName |-> SharedHeap[it.ref].error.drageeName]
    ELSE [message |-> it.message, drageeName |-> ds[it.dragee].name]

FailingOf(rule) == SelectSeq(rule.handler, LAMBDA it : ~ItemPasses(it))

PassingOf(rule) == SelectSeq(rule.handler, LAMBDA it : ItemPasses(it))

RulePayloads(rule, ds) ==
    [k \in 1..Len(FailingOf(rule)) |-> ItemPayload(FailingOf(rule)[k], ds)]

RECURSIVE SumSeq(_)
SumSeq(ns) == IF ns = <<>> THEN 0 ELSE Head(ns) + SumSeq(Tail(ns))

SumOver(rules, F(_)) == SumSeq([k \in 1..Len(rules) |-> F(rules[k])])

RECURSIVE AllPayloads(_, _)
AllPayloads(rules, ds) ==
    IF rules = <<>> THEN <<>>
    ELSE RulePayloads(Head(rules), ds) \o AllPayloads(Tail(rules), ds)

NumReturned(rule) == Len(rule.handler)
NumFailing(rule) == Len(FailingOf(rule))
NumPassing(rule) == Len(PassingOf(rule))

Payload(e) == [message |-> e.message, drageeName |-> e.drageeName]

ReportPayloads == [k \in 1..Len(report.errors) |-> Payload(ErrorValue(heap, report.errors[k]))]

\* C1: in the report of asserterHandler, passCount + errorsCount is the number
\* of results the handlers of all rules returned, errorsCount the number of
\* those with pass = false and passCount the number with pass = true.
C1_StatsCountEveryResult ==
    op = "asserterHandler" =>
        /\ report.stats.passCount + report.stats.errorsCount
              = SumOver(asserter.rules, NumReturned)
        /\ report.stats.errorsCount = SumOver(asserter.rules, NumFailing)
        /\ report.stats.passCount = SumOver(asserter.rules, NumPassing)

C1_Witness ==
    /\ op = "asserterHandler"
    /\ Len(asserter.rules) = 2
    /\ asserter.rules[1].handler = <<>>
    /\ report.stats.passCount = 1
    /\ report.stats.errorsCount = 2

\* C2: after asserterHandler every returned result carries the id of the rule
\* whose handler returned it, every error of the report carries the id of the
\* rule that produced its failing result, and every result instance was
\* stamped exactly once.
FailingPositions ==
    SelectSeq([k \in 1..Len(results) |-> k], LAMBDA k : ~heap[results[k]].pass)

C2_StampedByProducerOnce ==
    op = "asserterHandler" =>
        /\ \A k \in 1..Len(results) :
              heap[results[k]].ruleId = asserter.rules[producers[k]].id
        /\ Len(report.errors) = Len(FailingPositions)
        /\ \A j \in 1..Len(report.errors) :
              ErrorValue(heap, report.errors[j]).ruleId
                  = asserter.rules[producers[FailingPositions[j]]].id
        /\ \A a \in Range(results) :
              Cardinality({k \in 1..Len(stamps) : stamps[k].ref = a}) = 1

\* C3: when asserter.rule finds no rule, generateReportForRule returns the
\* vacuous passing report with the asserter's namespace and all stats zero,
\* and invokes no handler.
C3_NotFoundIsVacuous ==
    (op = "generateReportForRule" /\ found = 0) =>
        /\ report = [pass |-> TRUE, namespace |-> asserter.namespace, errors |-> <<>>,
                     stats |-> [rulesCount |-> 0, passCount |-> 0, errorsCount |-> 0]]
        /\ calls = <<>>
        /\ stamps = <<>>

C3_Witness ==
    /\ op = "generateReportForRule"
    /\ found = 0
    /\ Len(asserter.rules) = 2
    /\ NumFailing(asserter.rules[1]) > 0

\* C4: stats.rulesCount is the number of rules considered for the report: 1
\* when generateReportForRule finds the rule, 0 when it does not, and the
\* number of the asserter's rules for asserterHandler.
C4_RulesCountIsRulesConsidered ==
    /\ op = "generateReportForRule" =>
          report.stats.rulesCount = (IF found = 0 THEN 0 ELSE 1)
    /\ op = "asserterHandler" => report.stats.rulesCount = Len(asserter.rules)

\* C5: when asserter.rule finds rule r, generateReportForRule runs only r's
\* handler: pass, errors, passCount and errorsCount are those of r's results,
\* while stats.rulesCount is the number of the asserter's rules.
C5_SingleRuleReport ==
    (op = "generateReportForRule" /\ found # 0) =>
        LET r == asserter.rules[found]
        IN  /\ calls = <<[rule |-> found, dragees |-> dragees]>>
            /\ report.pass = (NumFailing(r) = 0)
            /\ ReportPayloads = RulePayloads(r, dragees)
            /\ \A k \in 1..Len(report.errors) :
                  ErrorValue(heap, report.errors[k]).ruleId = r.id
            /\ report.stats.errorsCount = NumFailing(r)
            /\ report.stats.passCount = NumPassing(r)
            /\ report.stats.rulesCount = Len(asserter.rules)

C5_Witness ==
    /\ op = "generateReportForRule"
    /\ found = 1
    /\ Len(asserter.rules) = 2
    /\ NumFailing(asserter.rules[2]) > 0
    /\ NumPassing(asserter.rules[1]) = 2
    /\ calls # <<>>
    /\ report.pass
    /\ report.stats.rulesCount = 2

\* C6: every report has pass = true exactly when its errors list is empty,
\* errorsCount equal to the length of errors, and the asserter's namespace.
C6_ReportIsConsistent ==
    op # "none" =>
        /\ report.pass <=> (report.errors = <<>>)
        /\ report.stats.errorsCount = Len(report.errors)
        /\ report.namespace = asserter.namespace

C6_Witness ==
    /\ op = "generateReportForRule"
    /\ ~report.pass
    /\ Len(report.errors) = 2
    /\ report.namespace = "domain"

\* C7: two asserterHandler calls in sequence return value-equal reports; the
\* stamping of the first call does not change the second report, nor does
\* the second call change the value of the first report.
\* The first report as it reads after the second call: its errors that are
\* kept objects through the heap, the others as they were returned.
FirstReportNow ==
    [prevValue EXCEPT !.errors =
        [k \in 1..Len(prevReport.errors) |->
            IF prevReport.errors[k] \in SharedRefs
            THEN ErrorValue(heap, prevReport.errors[k])
            ELSE prevValue.errors[k]]]

C7_SecondCallSameReport ==
    (op = "asserterHandler" /\ again) =>
        /\ ReportValue(heap, report) = prevValue
        /\ FirstReportNow = prevValue

C7_Witness ==
    /\ op = "asserterHandler"
    /\ again
    /\ Len(asserter.rules) = 2
    /\ asserter.rules[1].id # asserter.rules[2].id
    /\ \E k \in 1..Len(report.errors) : report.errors[k] \in SharedRefs
    /\ \E k \in 1..Len(report.errors) : report.errors[k] \notin SharedRefs
    /\ \E j, k \in 1..Len(results) :
          results[j] = results[k] /\ producers[j] # producers[k]

\* C10: the errors of asserterHandler's report are the error payloads of all
\* failing results, by rule position and then by position in the handler's
\* output; each handler is invoked once, in rule order, with the dragee list.
C10_ErrorsInRuleThenResultOrder ==
    op = "asserterHandler" =>
        /\ ReportPayloads = AllPayloads(asserter.rules, dragees)
        /\ calls = [i \in 1..Len(asserter.rules) |-> [rule |-> i, dragees |-> dragees]]

C10_Witness ==
    /\ op = "asserterHandler"
    /\ Len(asserter.rules) = 2
    /\ Len(report.errors) = 2
    /\ report.stats.passCount = 1
    /\ NumFailing(asserter.rules[1]) = 1
    /\ NumFailing(asserter.rules[2]) = 1
    /\ \E j, k \in 1..Len(report.errors) : ReportPayloads[j] # ReportPayloads[k]

\* C8: directDependencies returns root unchanged and, as dependencies, the
\* dragees of allDragees whose name is a key of root.depends_on, in the order
\* of the keys; keys naming no dragee are left out, and without depends_on
\* the list is empty.
KeyPosition(keys, name) == CHOOSE k \in 1..Len(keys) : keys[k] = name

C8_DependenciesInKeyOrder ==
    resolved # Undefined =>
        LET deps == resolved.dependencies
        IN  /\ resolved.root = root
            /\ root.depends_on = Undefined => deps = <<>>
            /\ root.depends_on # Undefined =>
                 LET keys == ObjectKeys(root.depends_on)
                 IN  /\ \A i \in 1..Len(deps) :
                            deps[i] \in Range(allDragees) /\ deps[i].name \in Range(keys)
                     /\ \A d \in Range(allDragees) :
                            d.name \in Range(keys) => d \in Range(deps)
                     /\ Len(deps) = Cardinality({k \in 1..Len(keys) :
                                        \E d \in Range(allDragees) : d.name = keys[k]})
                     /\ \A i, j \in 1..Len(deps) :
                            i < j => KeyPosition(keys, deps[i].name)
                                        < KeyPosition(keys, deps[j].name)

C8_Witness ==
    /\ resolved # Undefined
    /\ root.depends_on # Undefined
    /\ Len(root.depends_on.keys) = 3
    /\ Len(allDragees) = 2
    /\ Len(resolved.dependencies) = 2
    /\ resolved.dependencies[1] = allDragees[2]
    /\ resolved.dependencies[2] = allDragees[1]

C8_WitnessAbsent ==
    /\ resolved # Undefined
    /\ root.depends_on = Undefined
    /\ Len(allDragees) = 2

\* C9: every Rule that findRules or findRule returns has the id generated from
\* the namespace and its label, whatever fields the declared rule carries, and
\* the declared label, severity and handler; findRules returns one Rule per
\* rule file, in the order of the scan.
RuleOfDeclared(rule, declared) ==
    /\ rule.id = generateId(regNamespace, rule.label)
    /\ rule.label = declared.label
    /\ rule.severity = declared.severity
    /\ rule.handler = declared.handler

C9_IdGeneratedFromNamespaceAndLabel ==
    /\ regOp = "findRules" =>
          /\ Len(regResult) = Len(ruleFiles)
          /\ \A k \in 1..Len(ruleFiles) : RuleOfDeclared(regResult[k], ruleFiles[k].default)
    /\ (regOp = "findRule" /\ regResult # Undefined) =>
          \E k \in 1..Len(ruleFiles) : RuleOfDeclared(regResult, ruleFiles[k].default)

====
